---- MODULE Spec2Model ----
(***************************************************************************)
(* Model of package powork (src/powork.go): a Worker that searches for a   *)
(* nonce such that hash(msg || LE64(nonce)) has `difficulty` leading zero  *)
(* bits, validates such proofs, and runs searches in goroutines that       *)
(* deliver their outcome over channels.                                    *)
(*                                                                         *)
(* The hash is an external collaborator (hash.Hash).  It is represented by *)
(* a value [kind, digest]:                                                 *)
(*   kind = "sum"   a 16-bit stand-in for sha512.New: the digest is a      *)
(*                  function of the bytes absorbed;                        *)
(*   kind = "const" a hash whose Sum is the fixed byte string `digest`;    *)
(*   kind = "bad"   a hash whose Write returns an error.                   *)
(***************************************************************************)
EXTENDS Integers, Sequences, FiniteSets, Bags, TLC

VARIABLES
    difficulty,   \* Worker.difficulty
    getHash,      \* Worker.getHash
    maxWait,      \* Worker.maxWait (milliseconds)
    tasks,        \* one record per DoProofFor execution (synchronous call or goroutine)
    chanC,        \* the channel obtained from GetChannel and passed to SendProofToChannel
    got,          \* the values a consumer has received from chanC, in order
    ret           \* what the caller's last Worker method call returned

vars == <<difficulty, getHash, maxWait, tasks, chanC, got, ret>>

----------------------------------------------------------------------------
(* Bounds of the model *)

MaxDigestLen == 2     \* longest digest (bytes) of a "const" hash
MaxTasks == 2         \* searches started in one behaviour
MaxNonce == 2         \* the search loop is followed up to this nonce
MaxBuf == 1           \* largest buffer given to GetChannel

(* Program constants *)

DefaultDifficulty == 10
DefaultMaxWait == 5000
HandleBuffer == 1

----------------------------------------------------------------------------
(* Values *)

Nil == "nil"
ErrDifficulty == "Difficulty must be at least 1"
ErrTimeoutArg == "Timeout must be greater than or equal to 0"
ErrTimedOut == "Timed out while calculating proof of work"
ErrBufferOverrun == "Buffer overrun: not enough bits in hash"
ErrHashWrite == "hash write failed"

NilPoWork == [nil |-> TRUE, msg |-> <<>>, proof |-> 0, requiredIterations |-> 0]

NewPoWork(m) == [nil |-> FALSE, msg |-> m, proof |-> 0, requiredIterations |-> 0]

Max(a, b) == IF a >= b THEN a ELSE b

----------------------------------------------------------------------------
(* Byte arithmetic and the hash *)

\* x << 1 and x >> 1 on a uint8
Shl1(x) == (x * 2) % 256
Shr1(x) == x \div 2

\* Byte i (0 = least significant) of the two's-complement encoding of n.
RECURSIVE LEByte(_, _)
LEByte(n, i) == IF i = 0 THEN n % 256 ELSE LEByte(n \div 256, i - 1)

\* binary.Write(hash, binary.LittleEndian, int64): 8 bytes, least significant first
LittleEndian64(n) == [i \in 1..8 |-> LEByte(n, i - 1)]

RECURSIVE SumBytes(_)
SumBytes(s) == IF s = <<>> THEN 0 ELSE Head(s) + SumBytes(Tail(s))

\* The 16-bit stand-in digest: depends on every byte absorbed.
SumDigest(absorbed) ==
    LET s == SumBytes(absorbed)
    IN  << (s % 4) * 64, ((s \div 4) % 2) * 128 >>

Sha512 == [kind |-> "sum", digest |-> <<>>]
BadHash == [kind |-> "bad", digest |-> <<>>]
ConstHash(d) == [kind |-> "const", digest |-> d]

\* hash.Sum(nil) after Reset, Write(msg), Write(LE64(proof))
HashSum(h, absorbed) == IF h.kind = "const" THEN h.digest ELSE SumDigest(absorbed)

\* ValidatePoWork, lines 160-173: the digest of msg || LE64(proof), or the write error
ComputeSum(h, pow) ==
    IF h.kind = "bad"
    THEN [err |-> ErrHashWrite, sum |-> <<>>]
    ELSE [err |-> Nil, sum |-> HashSum(h, pow.msg \o LittleEndian64(pow.proof))]

----------------------------------------------------------------------------
(* ValidatePoWork, lines 175-192: the leading-zero-bit scan.               *)
(* k is the index of the byte in hand, i the inner loop counter, x the     *)
(* (shifted) byte and N the remaining count.                               *)

RECURSIVE ScanFrom(_, _, _, _, _)
ScanFrom(sum, k, i, x, N) ==
    IF k > Len(sum) THEN [ok |-> FALSE, err |-> ErrBufferOverrun]
    ELSE IF i = 8
         THEN ScanFrom(sum, k + 1, 0, IF k + 1 <= Len(sum) THEN sum[k + 1] ELSE 0, N)
         ELSE IF Shr1(Shl1(x)) = x
              THEN IF N - 1 = 0
                   THEN [ok |-> TRUE, err |-> Nil]
                   ELSE ScanFrom(sum, k, i + 1, Shl1(x), N - 1)
              ELSE [ok |-> FALSE, err |-> Nil]

\* Mutant: the count is tested before it is decremented, so one bit more is asked for.
ScanBits_OneMore(sum, N) == ScanFrom(sum, 1, 0, IF Len(sum) > 0 THEN sum[1] ELSE 0, N + 1)

\* Mutant: the digest's length is compared with N before any bit is read.
ScanBits_LengthFirst(sum, N) ==
    IF N > 8 * Len(sum)
    THEN [ok |-> FALSE, err |-> ErrBufferOverrun]
    ELSE ScanFrom(sum, 1, 0, IF Len(sum) > 0 THEN sum[1] ELSE 0, N)

\* Mutant: the count is tested before the first bit is read, so a count of 0
\* is met at once.
ScanBits_ZeroIsValid(sum, N) ==
    IF N = 0
    THEN [ok |-> TRUE, err |-> Nil]
    ELSE ScanFrom(sum, 1, 0, IF Len(sum) > 0 THEN sum[1] ELSE 0, N)

ScanBits(sum, N) == ScanFrom(sum, 1, 0, IF Len(sum) > 0 THEN sum[1] ELSE 0, N)

\* ValidatePoWork as one call: (bool, error)
ValidateResult(d, h, pow) ==
    LET s == ComputeSum(h, pow)
    IN  IF s.err # Nil THEN [ok |-> FALSE, err |-> s.err] ELSE ScanBits(s.sum, d)

----------------------------------------------------------------------------
(* Channels *)

\* make(chan struct{*PoWork; error}, buffer)
MakeChan(buffer) == [buf |-> <<>>, cap |-> buffer, closed |-> FALSE]

GetChannel(buffer) == MakeChan(buffer)

NoChan == MakeChan(0)

Outcome(p, e) == [pow |-> p, err |-> e]

NoOutcome == Outcome(NilPoWork, Nil)

----------------------------------------------------------------------------
(* The caller's view *)

Msgs == { <<0>>, <<6>> }

DiffArgs == {-1, 0, 1, 2, 17}
TimeoutArgs == {-1, 0, 1}
HashArgs == { Sha512, ConstHash(<<128, 0>>), BadHash }

Return(op, n, p, ok, e) == [op |-> op, n |-> n, pow |-> p, ok |-> ok, err |-> e]

NoReturn == Return("none", 0, NilPoWork, FALSE, Nil)

Ids == 1..Len(tasks)

\* A synchronous DoProofFor keeps its caller until it returns.
CallerFree == \A t \in Ids : tasks[t].kind = "sync" => tasks[t].pc = "done"

NoTimer == [armed |-> FALSE, d |-> 0]

\* time.After(d): a timer that is due after d milliseconds (at once when d <= 0)
After(d) == [armed |-> TRUE, d |-> Max(d, 0)]

NewTask(kind, m) ==
    [ kind |-> kind, msg |-> m, pc |-> "start",
      pow |-> NilPoWork, timer |-> NoTimer, fired |-> FALSE,
      res |-> NoOutcome,
      ch |-> IF kind = "prepare" THEN MakeChan(HandleBuffer) ELSE NoChan,
      rcv |-> <<>>, sawClose |-> FALSE ]

----------------------------------------------------------------------------
(* Worker methods called by the caller *)

\* NewWorker, lines 46-52, and a channel from GetChannel
Init ==
    /\ difficulty = DefaultDifficulty
    /\ getHash = Sha512
    /\ maxWait = DefaultMaxWait
    /\ tasks = <<>>
    /\ chanC \in { GetChannel(b) : b \in 0..MaxBuf }
    /\ got = <<>>
    /\ ret = NoReturn

\* Mutant: an invalid difficulty is rejected without being stored.
SetDifficulty_Reject(n) ==
    /\ CallerFree
    /\ difficulty' = IF n <= 0 THEN difficulty ELSE n
    /\ ret' = Return("SetDifficulty", n, NilPoWork, FALSE,
                     IF n <= 0 THEN ErrDifficulty ELSE Nil)
    /\ UNCHANGED <<getHash, maxWait, tasks, chanC, got>>

SetDifficulty(n) ==
    /\ CallerFree
    /\ difficulty' = n
    /\ ret' = Return("SetDifficulty", n, NilPoWork, FALSE,
                     IF n <= 0 THEN ErrDifficulty ELSE Nil)
    /\ UNCHANGED <<getHash, maxWait, tasks, chanC, got>>

SetTimeout(ms) ==
    /\ CallerFree
    /\ maxWait' = ms
    /\ ret' = Return("SetTimeout", ms, NilPoWork, FALSE,
                     IF ms < 0 THEN ErrTimeoutArg ELSE Nil)
    /\ UNCHANGED <<difficulty, getHash, tasks, chanC, got>>

SetHashGetter(h) ==
    /\ CallerFree
    /\ getHash' = h
    /\ ret' = Return("SetHashGetter", 0, NilPoWork, FALSE, Nil)
    /\ UNCHANGED <<difficulty, maxWait, tasks, chanC, got>>

\* The outcomes the caller holds: returned by DoProofFor or received from a channel.
Held ==
    { tasks[t].res : t \in { u \in Ids : tasks[u].kind = "sync" /\ tasks[u].pc = "done" } }
    \cup UNION { { tasks[t].rcv[i] : i \in 1..Len(tasks[t].rcv) } : t \in Ids }
    \cup { got[i] : i \in 1..Len(got) }

\* The proofs the caller can hand to ValidatePoWork: the ones it holds, and
\* for each the same message with the nonce one lower.
Candidates ==
    LET P == { o.pow : o \in { h \in Held : ~h.pow.nil } }
    IN  P \cup { [p EXCEPT !.proof = p.proof - 1] : p \in P }

\* Mutant: the scan counts down the Worker's field instead of the copy N, so
\* a successful validation leaves the difficulty at 0.
ValidatePoWork_CountsDownField(pow) ==
    /\ CallerFree
    /\ LET r == ValidateResult(difficulty, getHash, pow)
       IN  /\ ret' = Return("ValidatePoWork", 0, pow, r.ok, r.err)
           /\ difficulty' = IF r.ok THEN 0 ELSE difficulty
    /\ UNCHANGED <<getHash, maxWait, tasks, chanC, got>>

\* ValidatePoWork called by the caller, lines 159-194
ValidatePoWork(pow) ==
    /\ CallerFree
    /\ LET r == ValidateResult(difficulty, getHash, pow)
       IN  ret' = Return("ValidatePoWork", 0, pow, r.ok, r.err)
    /\ UNCHANGED <<difficulty, getHash, maxWait, tasks, chanC, got>>

\* The goroutines' records: all but the record of the caller's own last call.
Goroutines == SelectSeq(tasks, LAMBDA r : r.kind # "sync")

\* DoProofFor called by the caller: the call is entered.  The record of the
\* caller's previous call is dropped: what it returned has been overwritten.
DoProofFor(m) ==
    /\ CallerFree
    /\ Len(Goroutines) < MaxTasks
    /\ tasks' = Append(Goroutines, NewTask("sync", m))
    /\ ret' = NoReturn
    /\ UNCHANGED <<difficulty, getHash, maxWait, chanC, got>>

\* PrepareProof, lines 81-101: make the handle, start the goroutine, return the handle
PrepareProof(m) ==
    /\ CallerFree
    /\ Len(tasks) < MaxTasks
    /\ tasks' = Append(tasks, NewTask("prepare", m))
    /\ ret' = Return("PrepareProof", 0, NilPoWork, FALSE, Nil)
    /\ UNCHANGED <<difficulty, getHash, maxWait, chanC, got>>

\* SendProofToChannel, lines 105-116: start the goroutine
SendProofToChannel(m) ==
    /\ CallerFree
    /\ Len(tasks) < MaxTasks
    /\ tasks' = Append(tasks, NewTask("send", m))
    /\ ret' = Return("SendProofToChannel", 0, NilPoWork, FALSE, Nil)
    /\ UNCHANGED <<difficulty, getHash, maxWait, chanC, got>>

----------------------------------------------------------------------------
(* DoProofFor, step by step (one execution per task) *)

\* Mutant: the goroutine's closure reads the message of the latest submission.
Begin_LatestMsg(t) ==
    /\ tasks[t].pc = "start"
    /\ tasks' = [tasks EXCEPT ![t].pow = NewPoWork(tasks[Len(tasks)].msg),
                              ![t].timer = After(maxWait),
                              ![t].pc = "loop"]
    /\ UNCHANGED <<difficulty, getHash, maxWait, chanC, got, ret>>

\* Mutant: no timer is armed at all.
Begin_NoTimer(t) ==
    /\ tasks[t].pc = "start"
    /\ tasks' = [tasks EXCEPT ![t].pow = NewPoWork(tasks[t].msg),
                              ![t].pc = "loop"]
    /\ UNCHANGED <<difficulty, getHash, maxWait, chanC, got, ret>>

\* Mutant: the search of the t-th task starts from nonce t - 1 instead of 0.
Begin_SeedFromId(t) ==
    /\ tasks[t].pc = "start"
    /\ tasks' = [tasks EXCEPT ![t].pow = [NewPoWork(tasks[t].msg) EXCEPT !.proof = t - 1],
                              ![t].timer = After(maxWait),
                              ![t].pc = "loop"]
    /\ UNCHANGED <<difficulty, getHash, maxWait, chanC, got, ret>>

\* Mutant: the search starts from nonce 1.
Begin_StartAtOne(t) ==
    /\ tasks[t].pc = "start"
    /\ tasks' = [tasks EXCEPT ![t].pow = [NewPoWork(tasks[t].msg) EXCEPT !.proof = 1],
                              ![t].timer = After(maxWait),
                              ![t].pc = "loop"]
    /\ UNCHANGED <<difficulty, getHash, maxWait, chanC, got, ret>>

\* lines 125-130
Begin(t) ==
    /\ tasks[t].pc = "start"
    /\ tasks' = [tasks EXCEPT ![t].pow = NewPoWork(tasks[t].msg),
                              ![t].timer = After(maxWait),
                              ![t].pc = "loop"]
    /\ UNCHANGED <<difficulty, getHash, maxWait, chanC, got, ret>>

\* DoProofFor returns (p, e): to the caller, or to the goroutine that sends it.
\* Its locals other than the returned values are dead from here on.
Finish(t, p, e) ==
    /\ tasks' = [tasks EXCEPT ![t].res = Outcome(p, e),
                              ![t].pow = NilPoWork,
                              ![t].fired = FALSE,
                              ![t].pc = IF tasks[t].kind = "sync" THEN "done" ELSE "send"]
    /\ ret' = IF tasks[t].kind = "sync" THEN Return("DoProofFor", 0, p, FALSE, e) ELSE ret

\* Mutant: only the nonce is incremented.
Increment_NonceOnly(p) == [p EXCEPT !.proof = @ + 1]

\* toR.requiredIterations++; toR.proof++ (lines 141-142)
Increment(p) == [p EXCEPT !.requiredIterations = @ + 1, !.proof = @ + 1]

\* Mutant: the counters are incremented before the break is taken.
Iterate_IncrementFirst(t) ==
    /\ tasks[t].pc = "loop"
    /\ LET r == ValidateResult(difficulty, getHash, tasks[t].pow)
       IN  IF r.err # Nil THEN Finish(t, NilPoWork, r.err)
           ELSE IF r.ok THEN Finish(t, Increment(tasks[t].pow), Nil)
           ELSE IF tasks[t].fired
                THEN Finish(t, NilPoWork, ErrTimedOut)
                ELSE /\ tasks[t].pow.proof < MaxNonce
                     /\ tasks' = [tasks EXCEPT ![t].pow = Increment(@)]
                     /\ ret' = ret
    /\ UNCHANGED <<difficulty, getHash, maxWait, chanC, got>>

\* Mutant: the timeout returns the unfinished proof along with the error.
Iterate_TimeoutWithProof(t) ==
    /\ tasks[t].pc = "loop"
    /\ LET r == ValidateResult(difficulty, getHash, tasks[t].pow)
       IN  IF r.err # Nil THEN Finish(t, NilPoWork, r.err)
           ELSE IF r.ok THEN Finish(t, tasks[t].pow, Nil)
           ELSE IF tasks[t].fired
                THEN Finish(t, Increment(tasks[t].pow), ErrTimedOut)
                ELSE /\ tasks[t].pow.proof < MaxNonce
                     /\ tasks' = [tasks EXCEPT ![t].pow = Increment(@)]
                     /\ ret' = ret
    /\ UNCHANGED <<difficulty, getHash, maxWait, chanC, got>>

\* Mutant: the select on timeoutChannel stands at the top of the loop, before
\* the candidate is evaluated.
Iterate_DeadlineFirst(t) ==
    /\ tasks[t].pc = "loop"
    /\ LET r == ValidateResult(difficulty, getHash, tasks[t].pow)
       IN  IF tasks[t].fired THEN Finish(t, NilPoWork, ErrTimedOut)
           ELSE IF r.err # Nil THEN Finish(t, NilPoWork, r.err)
           ELSE IF r.ok THEN Finish(t, tasks[t].pow, Nil)
           ELSE /\ tasks[t].pow.proof < MaxNonce
                /\ tasks' = [tasks EXCEPT ![t].pow = Increment(@)]
                /\ ret' = ret
    /\ UNCHANGED <<difficulty, getHash, maxWait, chanC, got>>

\* Mutant: an error of ValidatePoWork is treated like a rejected candidate:
\* the loop goes on to the next nonce, or times out.
Iterate_RetryOnError(t) ==
    /\ tasks[t].pc = "loop"
    /\ LET r == ValidateResult(difficulty, getHash, tasks[t].pow)
       IN  IF r.err = Nil /\ r.ok THEN Finish(t, tasks[t].pow, Nil)
           ELSE IF tasks[t].fired
                THEN Finish(t, NilPoWork, ErrTimedOut)
                ELSE /\ tasks[t].pow.proof < MaxNonce
                     /\ tasks' = [tasks EXCEPT ![t].pow = Increment(@)]
                     /\ ret' = ret
    /\ UNCHANGED <<difficulty, getHash, maxWait, chanC, got>>

\* One turn of the loop, lines 132-151: ValidatePoWork on the candidate, then
\* return its error, break with the proof, time out, or go round again.
Iterate(t) ==
    /\ tasks[t].pc = "loop"
    /\ LET r == ValidateResult(difficulty, getHash, tasks[t].pow)
       IN  IF r.err # Nil THEN Finish(t, NilPoWork, r.err)
           ELSE IF r.ok THEN Finish(t, tasks[t].pow, Nil)
           ELSE IF tasks[t].fired
                THEN Finish(t, NilPoWork, ErrTimedOut)
                ELSE /\ tasks[t].pow.proof < MaxNonce
                     /\ tasks' = [tasks EXCEPT ![t].pow = Increment(@)]
                     /\ ret' = ret
    /\ UNCHANGED <<difficulty, getHash, maxWait, chanC, got>>

\* Mutant: a failed search closes the handle without sending its error.
SendHandle_SkipError(t) ==
    /\ tasks[t].pc = "send"
    /\ tasks[t].kind = "prepare"
    /\ Len(tasks[t].ch.buf) < tasks[t].ch.cap
    /\ tasks' = [tasks EXCEPT ![t].ch.buf = IF tasks[t].res.err # Nil THEN @
                                            ELSE Append(@, tasks[t].res),
                              ![t].pc = "close"]
    /\ UNCHANGED <<difficulty, getHash, maxWait, chanC, got, ret>>

\* toR <- struct{...}{r, e} (lines 93-96)
SendHandle(t) ==
    /\ tasks[t].pc = "send"
    /\ tasks[t].kind = "prepare"
    /\ Len(tasks[t].ch.buf) < tasks[t].ch.cap
    /\ tasks' = [tasks EXCEPT ![t].ch.buf = Append(@, tasks[t].res), ![t].pc = "close"]
    /\ UNCHANGED <<difficulty, getHash, maxWait, chanC, got, ret>>

\* close(toR) (line 97)
CloseHandle(t) ==
    /\ tasks[t].pc = "close"
    /\ tasks' = [tasks EXCEPT ![t].ch.closed = TRUE, ![t].pc = "done"]
    /\ UNCHANGED <<difficulty, getHash, maxWait, chanC, got, ret>>

\* Mutant: the goroutine closes the caller's channel after its send, as
\* PrepareProof does with its own.
SendC_ThenClose(t) ==
    /\ tasks[t].pc = "send"
    /\ tasks[t].kind = "send"
    /\ IF Len(chanC.buf) < chanC.cap
       THEN /\ chanC' = [chanC EXCEPT !.buf = Append(@, tasks[t].res), !.closed = TRUE]
            /\ got' = got
       ELSE /\ chanC.buf = <<>>
            /\ got' = Append(got, tasks[t].res)
            /\ chanC' = [chanC EXCEPT !.closed = TRUE]
    /\ tasks' = [tasks EXCEPT ![t].pc = "done"]
    /\ UNCHANGED <<difficulty, getHash, maxWait, ret>>

\* c <- struct{...}{r, e} (lines 111-114): into the buffer, or, with the buffer
\* full or absent, handed to a consumer that is receiving
SendC(t) ==
    /\ tasks[t].pc = "send"
    /\ tasks[t].kind = "send"
    /\ IF Len(chanC.buf) < chanC.cap
       THEN /\ chanC' = [chanC EXCEPT !.buf = Append(@, tasks[t].res)]
            /\ got' = got
       ELSE /\ chanC.buf = <<>>
            /\ got' = Append(got, tasks[t].res)
            /\ chanC' = chanC
    /\ tasks' = [tasks EXCEPT ![t].pc = "done"]
    /\ UNCHANGED <<difficulty, getHash, maxWait, ret>>

----------------------------------------------------------------------------
(* The runtime's timers *)
(* The model is untimed.  How long one turn of the loop takes is not      *)
(* bounded, so the timer of a running search, whatever its duration, may  *)
(* be delivered between any two turns; a duration <= 0 is due at once and *)
(* delivered when the runtime next runs its timers.                       *)

Running(t) == tasks[t].pc = "loop"

\* The runtime puts the time on timeoutChannel.
TimerFire(t) ==
    /\ Running(t)
    /\ tasks[t].timer.armed
    /\ ~tasks[t].fired
    /\ tasks' = [tasks EXCEPT ![t].fired = TRUE]
    /\ UNCHANGED <<difficulty, getHash, maxWait, chanC, got, ret>>

----------------------------------------------------------------------------
(* The consumers of the channels *)

\* <-handle on the channel PrepareProof returned
RecvHandle(t) ==
    /\ tasks[t].kind = "prepare"
    /\ IF tasks[t].ch.buf # <<>>
       THEN tasks' = [tasks EXCEPT ![t].rcv = Append(@, Head(tasks[t].ch.buf)),
                                   ![t].ch.buf = Tail(@)]
       ELSE /\ tasks[t].ch.closed
            /\ ~tasks[t].sawClose
            /\ tasks' = [tasks EXCEPT ![t].sawClose = TRUE]
    /\ UNCHANGED <<difficulty, getHash, maxWait, chanC, got, ret>>

\* <-c on the shared channel, from its buffer
RecvC ==
    /\ chanC.buf # <<>>
    /\ got' = Append(got, Head(chanC.buf))
    /\ chanC' = [chanC EXCEPT !.buf = Tail(@)]
    /\ UNCHANGED <<difficulty, getHash, maxWait, tasks, ret>>

----------------------------------------------------------------------------
(* Specifications *)

\* The whole program: one caller, its goroutines, the timers, the consumers.
Next ==
    \/ \E n \in DiffArgs : SetDifficulty(n)
    \/ \E ms \in TimeoutArgs : SetTimeout(ms)
    \/ \E h \in HashArgs : SetHashGetter(h)
    \/ \E m \in Msgs : DoProofFor(m)
    \/ \E m \in Msgs : PrepareProof(m)
    \/ \E m \in Msgs : SendProofToChannel(m)
    \/ \E p \in Candidates : ValidatePoWork(p)
    \/ \E t \in Ids : Begin(t)
    \/ \E t \in Ids : Iterate(t)
    \/ \E t \in Ids : SendHandle(t)
    \/ \E t \in Ids : CloseHandle(t)
    \/ \E t \in Ids : SendC(t)
    \/ \E t \in Ids : TimerFire(t)
    \/ \E t \in Ids : RecvHandle(t)
    \/ RecvC

Spec == Init /\ [][Next]_vars

\* A caller that configures the Worker, searches synchronously and validates.
NextCaller ==
    \/ \E n \in DiffArgs : SetDifficulty(n)
    \/ \E ms \in TimeoutArgs : SetTimeout(ms)
    \/ \E h \in HashArgs : SetHashGetter(h)
    \/ \E m \in Msgs : DoProofFor(m)
    \/ \E p \in Candidates : ValidatePoWork(p)
    \/ \E t \in Ids : Begin(t)
    \/ \E t \in Ids : Iterate(t)
    \/ \E t \in Ids : TimerFire(t)

SpecCaller == Init /\ [][NextCaller]_vars

\* Synchronous searches on a Worker in any configuration the setters can
\* produce, with the scheduling the runtime gives a running search: the loop
\* keeps being scheduled and the timer is eventually delivered.
InitLive ==
    /\ difficulty \in DiffArgs \cup {DefaultDifficulty}
    /\ getHash \in HashArgs
    /\ maxWait \in TimeoutArgs \cup {DefaultMaxWait}
    /\ tasks = <<>>
    /\ chanC = GetChannel(0)
    /\ got = <<>>
    /\ ret = NoReturn

NextLive ==
    \/ \E m \in Msgs : DoProofFor(m)
    \/ \E t \in Ids : Begin(t)
    \/ \E t \in Ids : Iterate(t)
    \/ \E t \in Ids : TimerFire(t)

SpecLive ==
    /\ InitLive
    /\ [][NextLive]_vars
    /\ WF_vars(\E t \in Ids : Begin(t))
    /\ WF_vars(\E t \in Ids : Iterate(t))
    /\ WF_vars(\E t \in Ids : TimerFire(t))

\* Asynchronous searches on a Worker whose configuration is left alone:
\* any configuration the setters can produce, fixed from the start.
FixedConfigs ==
    { [d |-> DefaultDifficulty, h |-> Sha512, w |-> DefaultMaxWait],
      [d |-> 2, h |-> Sha512, w |-> 0],
      [d |-> 17, h |-> Sha512, w |-> 1],
      [d |-> 1, h |-> ConstHash(<<128, 0>>), w |-> 1],
      [d |-> 1, h |-> BadHash, w |-> -1] }

InitFixed ==
    /\ \E c \in FixedConfigs :
          /\ difficulty = c.d
          /\ getHash = c.h
          /\ maxWait = c.w
    /\ tasks = <<>>
    /\ chanC \in { GetChannel(b) : b \in 0..MaxBuf }
    /\ got = <<>>
    /\ ret = NoReturn

NextFixed ==
    \/ \E m \in Msgs : PrepareProof(m)
    \/ \E m \in Msgs : SendProofToChannel(m)
    \/ \E t \in Ids : Begin(t)
    \/ \E t \in Ids : Iterate(t)
    \/ \E t \in Ids : SendHandle(t)
    \/ \E t \in Ids : CloseHandle(t)
    \/ \E t \in Ids : SendC(t)
    \/ \E t \in Ids : TimerFire(t)
    \/ \E t \in Ids : RecvHandle(t)
    \/ RecvC

SpecFixed == InitFixed /\ [][NextFixed]_vars

\* The searches of PrepareProof alone, on a Worker whose configuration is
\* left alone, up to the close of their handles.
InitSearch ==
    /\ \E c \in FixedConfigs :
          /\ difficulty = c.d
          /\ getHash = c.h
          /\ maxWait = c.w
    /\ tasks = <<>>
    /\ chanC = GetChannel(0)
    /\ got = <<>>
    /\ ret = NoReturn

NextSearch ==
    \/ \E m \in Msgs : PrepareProof(m)
    \/ \E t \in Ids : Begin(t)
    \/ \E t \in Ids : Iterate(t)
    \/ \E t \in Ids : TimerFire(t)
    \/ \E t \in Ids : SendHandle(t)
    \/ \E t \in Ids : CloseHandle(t)

SpecSearch == InitSearch /\ [][NextSearch]_vars

\* A caller that submits a search on a Worker as NewWorker made it and
\* reconfigures the Worker while it runs.  The goroutine reads the Worker's
\* fields when it gets to them (lines 130, 160, 175), the caller writes them
\* (lines 56, 66, 76) without synchronisation: a read returns the value before
\* or after a write, whichever the interleaving gives.
RaceMsgs == Msgs \cup { <<3>> }
RaceDiffArgs == {1, 2}
RaceTimeoutArgs == {0, 1}
RaceHashArgs == { ConstHash(<<0, 0>>) }

AsNew ==
    /\ difficulty = DefaultDifficulty
    /\ getHash = Sha512
    /\ maxWait = DefaultMaxWait

\* The Worker is new and nothing has been submitted on it.
FirstSubmission == AsNew /\ tasks = <<>>

NextRace ==
    \/ \E m \in RaceMsgs : FirstSubmission /\ PrepareProof(m)
    \/ \E m \in RaceMsgs : FirstSubmission /\ SendProofToChannel(m)
    \/ \E n \in RaceDiffArgs : SetDifficulty(n)
    \/ \E ms \in RaceTimeoutArgs : SetTimeout(ms)
    \/ \E h \in RaceHashArgs : SetHashGetter(h)
    \/ \E t \in Ids : Begin(t)
    \/ \E t \in Ids : Iterate(t)
    \/ \E t \in Ids : SendHandle(t)
    \/ \E t \in Ids : CloseHandle(t)
    \/ \E t \in Ids : SendC(t)
    \/ \E t \in Ids : TimerFire(t)
    \/ \E t \in Ids : RecvHandle(t)
    \/ RecvC

SpecRace == Init /\ [][NextRace]_vars

\* ValidatePoWork as a function of the digest and the difficulty: every
\* digest over ByteVals, as the Sum of a hash, and every difficulty around
\* its bit length.
ByteVals == {0, 1, 2, 5, 16, 64, 127, 128, 255}

RECURSIVE SeqsUpTo(_, _)
SeqsUpTo(S, n) ==
    IF n = 0 THEN { <<>> }
    ELSE LET R == SeqsUpTo(S, n - 1)
         IN  R \cup { Append(r, x) : r \in { q \in R : Len(q) = n - 1 }, x \in S }

Digests == SeqsUpTo(ByteVals, MaxDigestLen) \ { <<>> }

DiffRange == (-1)..(8 * MaxDigestLen + 2)

PowArgs == { [NewPoWork(m) EXCEPT !.proof = n] : m \in Msgs, n \in {-1, 0, 1} }

InitValidate ==
    /\ difficulty \in DiffRange
    /\ getHash \in { ConstHash(d) : d \in Digests } \cup { Sha512, BadHash }
    /\ maxWait = DefaultMaxWait
    /\ tasks = <<>>
    /\ chanC = GetChannel(0)
    /\ got = <<>>
    /\ ret = NoReturn

NextValidate == \E p \in PowArgs : ValidatePoWork(p)

SpecValidate == InitValidate /\ [][NextValidate]_vars

----------------------------------------------------------------------------
(* Properties of ValidatePoWork *)

Pow2(n) == 2 ^ n

\* Bit j (1 = the most significant bit of the first byte) of a digest
Bit(D, j) == (D[((j - 1) \div 8) + 1] \div Pow2(7 - ((j - 1) % 8))) % 2

FirstBitsZero(D, N) == \A j \in 1..N : Bit(D, j) = 0

BitLength(D) == 8 * Len(D)

\* The digest the last ValidatePoWork call scanned (SpecValidate: the
\* configuration never changes)
Validated == ret.op = "ValidatePoWork" /\ getHash.kind # "bad"

ScannedDigest == ComputeSum(getHash, ret.pow).sum

\* C1: for 1 <= N <= bitlength(D), ValidatePoWork returns (true, nil) iff the
\* first N bits of D are all zero and (false, nil) otherwise; never an error.
C1_LeadingZeroBits ==
    (Validated /\ 1 <= difficulty /\ difficulty <= BitLength(ScannedDigest))
        => /\ ret.err = Nil
           /\ ret.ok <=> FirstBitsZero(ScannedDigest, difficulty)

\* C1 witness: a difficulty that spans two bytes is met by a digest that has a
\* 1 bit right after the bits asked for.
C1_Witness ==
    /\ Validated
    /\ getHash.kind = "const"
    /\ difficulty = 9
    /\ ScannedDigest = <<0, 64>>
    /\ ret.ok

\* C3 as claimed: for N > bitlength(D), ValidatePoWork signals the buffer
\* overrun whatever the bits of D are.
C3_AlwaysTooShort ==
    (Validated /\ difficulty > BitLength(ScannedDigest))
        => ret.err = ErrBufferOverrun

\* C3 as amended: for N > bitlength(D), ValidatePoWork never returns true; it
\* signals the buffer overrun iff every bit of D is zero, and returns
\* (false, nil) iff D has a 1 bit.
C3_TooShortIffAllZero ==
    (Validated /\ difficulty > BitLength(ScannedDigest))
        => /\ ~ret.ok
           /\ ret.err \in {Nil, ErrBufferOverrun}
           /\ ret.err = ErrBufferOverrun
                <=> FirstBitsZero(ScannedDigest, BitLength(ScannedDigest))

\* C3 witness: both outcomes occur for a difficulty beyond the digest's length
C3_Witness ==
    /\ Validated
    /\ getHash.kind = "const"
    /\ difficulty > BitLength(ScannedDigest)
    /\ ScannedDigest = <<0, 0>>
    /\ ret.err = ErrBufferOverrun

----------------------------------------------------------------------------
(* Properties of the search *)

Sync == { t \in Ids : tasks[t].kind = "sync" }
Prepared == { t \in Ids : tasks[t].kind = "prepare" }
Sending == { t \in Ids : tasks[t].kind = "send" }

\* DoProofFor has returned in task t
Returned(t) == tasks[t].pc \in {"send", "close", "done"}

\* C2: a Proof returned by DoProofFor validates, and validates again, as long
\* as no setter is called in between (a setter call would replace ret).
C2_RoundTrip ==
    [][ ( /\ ret'.op = "ValidatePoWork"
          /\ ret'.pow = ret.pow
          /\ \/ ret.op = "DoProofFor" /\ ret.err = Nil
             \/ ret.op = "ValidatePoWork" /\ ret.ok /\ ret.err = Nil )
        => (ret'.ok /\ ret'.err = Nil) ]_vars

\* C2 witness: a Proof that took two rejected candidates to find has been
\* returned by DoProofFor and validated.
C2_Witness ==
    /\ ret.op = "ValidatePoWork"
    /\ ret.ok
    /\ ret.pow.proof = 2
    /\ \E t \in Sync : tasks[t].pc = "done" /\ tasks[t].res = Outcome(ret.pow, Nil)

\* What went onto the handle of task t so far
OnHandle(t) == tasks[t].rcv \o tasks[t].ch.buf

\* C4: the handle of PrepareProof carries the one outcome of its search once:
\* nothing before the search returns, the outcome once the goroutine has sent,
\* the close after it, and a receiver sees the outcome before the close.
C4_HandleCarriesOneOutcome ==
    \A t \in Prepared :
        /\ Len(tasks[t].ch.buf) <= tasks[t].ch.cap
        /\ tasks[t].pc \in {"start", "loop", "send"}
             => OnHandle(t) = <<>> /\ ~tasks[t].ch.closed
        /\ tasks[t].pc = "close"
             => OnHandle(t) = <<tasks[t].res>> /\ ~tasks[t].ch.closed
        /\ tasks[t].pc = "done"
             => OnHandle(t) = <<tasks[t].res>> /\ tasks[t].ch.closed
        /\ tasks[t].sawClose => tasks[t].rcv = <<tasks[t].res>>

\* C4 witness: a receiver got the failure of a search and then saw the close
C4_Witness ==
    \E t \in Prepared :
        /\ tasks[t].sawClose
        /\ Len(tasks[t].rcv) = 1
        /\ tasks[t].rcv[1].err = ErrTimedOut

\* What went onto the shared channel so far
OnC == got \o chanC.buf

Occurrences(x, q) == Cardinality({ i \in 1..Len(q) : q[i] = x })

SentC == { t \in Sending : tasks[t].pc = "done" }

\* C5: every SendProofToChannel goroutine that is through has put exactly its
\* one outcome on the caller's channel, nothing else is on it, and it is open.
C5_SharedChannelOnePerSubmission ==
    /\ ~chanC.closed
    /\ Len(chanC.buf) <= chanC.cap
    /\ Len(OnC) = Cardinality(SentC)
    /\ \A i \in 1..Len(OnC) :
          Occurrences(OnC[i], OnC) = Cardinality({ t \in SentC : tasks[t].res = OnC[i] })

\* C5 witness: two submissions share the channel and the consumer has
\* received both outcomes
C5_Witness ==
    /\ Cardinality(SentC) = 2
    /\ Len(got) = 2
    /\ got[1] # got[2]
    /\ ~chanC.closed

\* What a search of message m alone finds: the first nonce from 0 whose
\* candidate is valid, with the iteration count it took (or the error met
\* on the way; nothing within MaxNonce otherwise).
RECURSIVE SoloFrom(_, _, _)
SoloFrom(d, h, p) ==
    LET r == ValidateResult(d, h, p)
    IN  IF r.err # Nil THEN Outcome(NilPoWork, r.err)
        ELSE IF r.ok THEN Outcome(p, Nil)
        ELSE IF p.proof >= MaxNonce THEN NoOutcome
        ELSE SoloFrom(d, h, [p EXCEPT !.proof = @ + 1, !.requiredIterations = @ + 1])

Solo(m) == SoloFrom(difficulty, getHash, [nil |-> FALSE, msg |-> m, proof |-> 0,
                                          requiredIterations |-> 0])

Delivered == { t \in Ids : tasks[t].pc \in {"close", "done"} }

Completions ==
    Len(OnC) + Cardinality({ t \in Prepared : OnHandle(t) # <<>> })

\* C6: with the configuration left alone, every search that is through has
\* delivered one completion, and every Proof is the one a search of the
\* submission's own message alone finds.
C6_CompletionsNotSwapped ==
    /\ Completions = Cardinality(Delivered)
    /\ \A t \in Ids :
          (Returned(t) /\ tasks[t].res.err = Nil)
              => /\ tasks[t].res.pow.msg = tasks[t].msg
                 /\ tasks[t].res = Solo(tasks[t].msg)
    /\ \A t \in Prepared :
          \A i \in 1..Len(OnHandle(t)) :
              OnHandle(t)[i].err = Nil => OnHandle(t)[i].pow.msg = tasks[t].msg
    /\ \A i \in 1..Len(OnC) :
          OnC[i].err = Nil
              => \E t \in SentC : tasks[t].msg = OnC[i].pow.msg /\ tasks[t].res = OnC[i]

\* C6 witness: two searches on two messages are through, each with the Proof
\* for its own message, found at different nonces
C6_Witness ==
    \E t, u \in Ids :
        /\ tasks[t].msg # tasks[u].msg
        /\ tasks[t].pc = "done" /\ tasks[u].pc = "done"
        /\ tasks[t].res.err = Nil /\ tasks[u].res.err = Nil
        /\ tasks[t].res.pow.proof = 0
        /\ tasks[u].res.pow.proof = 2
        /\ tasks[t].kind = "prepare" /\ tasks[t].rcv # <<>>
        /\ tasks[u].kind = "send" /\ got # <<>>

\* An outcome is a Proof or a failure, never both and never neither
ProofOrFailure(o) == o.pow.nil <=> o.err # Nil

\* C7: what DoProofFor returns, and every value on a handle or on the
\* caller's channel, has exactly one of its two fields non-nil.
C7_ExactlyOneOfProofAndError ==
    /\ \A t \in Ids : Returned(t) => ProofOrFailure(tasks[t].res)
    /\ \A t \in Prepared : \A i \in 1..Len(OnHandle(t)) : ProofOrFailure(OnHandle(t)[i])
    /\ \A i \in 1..Len(OnC) : ProofOrFailure(OnC[i])

\* C7 witness: a Proof and a timeout have both been delivered
C7_Witness ==
    /\ \E i \in 1..Len(got) : got[i].err = ErrTimedOut /\ got[i].pow.nil
    /\ \E t \in Prepared : \E i \in 1..Len(tasks[t].rcv) :
          tasks[t].rcv[i].err = Nil /\ ~tasks[t].rcv[i].pow.nil

\* No candidate for message m is valid and none makes the predicate fail
\* (the constant digest does not depend on the nonce)
NeverValid(m) ==
    /\ getHash.kind = "const"
    /\ ValidateResult(difficulty, getHash, NewPoWork(m)) = [ok |-> FALSE, err |-> Nil]

Searching(t) == tasks[t].kind = "sync" /\ tasks[t].pc \in {"start", "loop"}

\* C8: with a positive timeout and a difficulty no candidate meets, a
\* DoProofFor call eventually returns the timeout failure and no Proof.
C8_TimeoutEventuallyReturned ==
    \A m \in Msgs :
        (\E t \in Ids : Searching(t) /\ tasks[t].msg = m /\ maxWait > 0 /\ NeverValid(m))
            ~> (ret.op = "DoProofFor" /\ ret.err = ErrTimedOut /\ ret.pow.nil)

\* C8 witness: such a call has returned the timeout
C8_Witness ==
    /\ ret.op = "DoProofFor"
    /\ ret.err = ErrTimedOut
    /\ maxWait > 0
    /\ \E t \in Sync : tasks[t].pc = "done" /\ NeverValid(tasks[t].msg)

\* C9 as claimed: with a timeout of 0, DoProofFor never returns the timeout
\* failure.
C9_ZeroMeansNoTimeout ==
    (ret.op = "DoProofFor" /\ maxWait = 0) => ret.err # ErrTimedOut

\* C10: SetDifficulty(n) returns an error exactly when n <= 0 and
\* SetTimeout(ms) exactly when ms < 0; either way the value is stored.
C10_SettersStoreAndReport ==
    /\ ret.op = "SetDifficulty"
         => /\ difficulty = ret.n
            /\ ret.err = IF ret.n <= 0 THEN ErrDifficulty ELSE Nil
    /\ ret.op = "SetTimeout"
         => /\ maxWait = ret.n
            /\ ret.err = IF ret.n < 0 THEN ErrTimeoutArg ELSE Nil

\* C10 witness: a rejected difficulty has replaced the default
C10_Witness ==
    /\ ret.op = "SetDifficulty"
    /\ ret.err = ErrDifficulty
    /\ difficulty = -1

----------------------------------------------------------------------------
(* Properties of the configuration *)

\* C11 as claimed: in every state reached from NewWorker by setter, search
\* and validate calls, the difficulty is at least 1 and the timeout at least 0.
C11_ConfigInvariant == difficulty >= 1 /\ maxWait >= 0

\* C12 as claimed: with difficulty 0, ValidatePoWork returns (true, nil) for
\* every digest.
C12_ZeroDifficultyValid ==
    (Validated /\ difficulty = 0) => (ret.ok /\ ret.err = Nil)

----------------------------------------------------------------------------
(* Properties of the search, continued *)

\* Searches t and u ran on the same message and each returned a Proof.  Under
\* SpecSearch they ran with the same difficulty and the same hash; each has
\* its own timer, delivered at any moment of its search.
BothSucceeded(t, u) ==
    /\ tasks[t].msg = tasks[u].msg
    /\ Returned(t) /\ tasks[t].res.err = Nil
    /\ Returned(u) /\ tasks[u].res.err = Nil

\* C13: two searches of the same message with the same difficulty and hash
\* never return different nonces: when both return a Proof, the two Proofs
\* have the same nonce and the same iteration count, whenever their timers
\* were delivered.
C13_SameNonce ==
    \A t, u \in Ids :
        BothSucceeded(t, u)
            => /\ tasks[t].res.pow.proof = tasks[u].res.pow.proof
               /\ tasks[t].res.pow.requiredIterations = tasks[u].res.pow.requiredIterations

\* C13 witness: two searches of the same message both returned the Proof
\* that takes two rejected candidates
C13_Witness ==
    \E t, u \in Ids :
        /\ t # u
        /\ BothSucceeded(t, u)
        /\ tasks[t].res.pow.proof = 2
        /\ tasks[u].res.pow.proof = 2

\* C14 as claimed: a search submitted on the Worker as NewWorker made it
\* evaluates its candidates against that configuration whatever the setters
\* do afterwards, so every Proof it returns is valid under the difficulty and
\* the hash in force at submission.
C14_SubmissionTimeConfig ==
    \A t \in Ids :
        (Returned(t) /\ tasks[t].res.err = Nil)
            => ValidateResult(DefaultDifficulty, Sha512, tasks[t].res.pow).ok

Config == <<difficulty, getHash, maxWait>>

\* C15: a ValidatePoWork call, whatever it returns, leaves the Worker's
\* difficulty, timeout and hash factory as they were, and the Proof it was
\* given as the caller held it (and every other Proof with it); every step of
\* a DoProofFor call, its return with a Proof, a timeout or a failure
\* included, leaves the configuration as it was.
C15_NoSideEffects ==
    [][ /\ ret'.op = "ValidatePoWork"
            => /\ Config' = Config
               /\ ret'.pow \in Candidates
               /\ tasks' = tasks
               /\ got' = got
        /\ tasks' # tasks => Config' = Config ]_vars

\* C15 witness: ValidatePoWork failed with an overrun on the Proof that
\* DoProofFor had returned, and the caller still holds that Proof
C15_Witness ==
    /\ ret.op = "ValidatePoWork"
    /\ ret.err = ErrBufferOverrun
    /\ \E t \in Sync : tasks[t].pc = "done" /\ tasks[t].res = Outcome(ret.pow, Nil)

\* The candidate of message m with nonce k is invalid under the Worker's
\* configuration: ValidatePoWork returns (false, nil) for it.
Rejected(m, k) ==
    ValidateResult(difficulty, getHash, [NewPoWork(m) EXCEPT !.proof = k])
        = [ok |-> FALSE, err |-> Nil]

\* C16: a synchronous search with candidate n in hand has found every
\* candidate 0..n-1 invalid, and a Proof returned by DoProofFor has a nonce
\* n >= 0 whose candidate is valid while those of 0..n-1 (n-1 in particular)
\* are invalid.
C16_MinimalNonce ==
    /\ \A t \in Sync :
          tasks[t].pc = "loop"
              => \A k \in 0..(tasks[t].pow.proof - 1) : Rejected(tasks[t].msg, k)
    /\ (ret.op = "DoProofFor" /\ ret.err = Nil)
          => /\ ret.pow.proof >= 0
             /\ ValidateResult(difficulty, getHash, ret.pow) = [ok |-> TRUE, err |-> Nil]
             /\ \A k \in 0..(ret.pow.proof - 1) : Rejected(ret.pow.msg, k)

\* C16 witness: DoProofFor has just returned the Proof with nonce 2 under a
\* difficulty set by the caller
C16_Witness ==
    /\ ret.op = "DoProofFor"
    /\ ret.err = Nil
    /\ ret.pow.proof = 2
    /\ difficulty = 2

\* C17: the timer is looked at only after a candidate has been rejected and
\* the nonce incremented.  A step in which a running search returns the
\* timeout failure is one whose candidate in hand is rejected, with the
\* timer delivered and the incremented nonce at least 1; and a running search
\* whose candidate for nonce 0 is valid returns, when it returns, that Proof,
\* whatever maxWait is and whether or not the timer has been delivered.
C17_DeadlineAfterRejection ==
    [][ \A t \in Ids :
          Running(t)
            => /\ (tasks'[t].pc # "loop" /\ tasks'[t].res.err = ErrTimedOut)
                    => /\ Rejected(tasks[t].msg, tasks[t].pow.proof)
                       /\ tasks[t].fired
                       /\ Increment(tasks[t].pow).proof >= 1
               /\ (tasks'[t].pc # "loop"
                     /\ ValidateResult(difficulty, getHash, NewPoWork(tasks[t].msg)).ok)
                    => tasks'[t].res = Outcome(NewPoWork(tasks[t].msg), Nil) ]_vars

\* C17 witness: with maxWait = -1 the timer was due from the start, and
\* DoProofFor returned the Proof with nonce 0
C17_Witness ==
    /\ ret.op = "DoProofFor"
    /\ ret.err = Nil
    /\ ret.pow.proof = 0
    /\ maxWait = -1
    /\ \E t \in Sync : tasks[t].pc = "done" /\ tasks[t].timer = After(-1)

\* The iteration count of a PoWork equals its nonce, and neither is negative
Counted(p) == p.requiredIterations = p.proof /\ p.proof >= 0

\* C18: in every state of a search the iteration count equals the nonce, and
\* every Proof DoProofFor returns has requiredIterations = proof >= 0, the
\* number of candidates that were rejected before the valid one.
C18_IterationsEqualNonce ==
    /\ \A t \in Ids :
          /\ tasks[t].pc = "loop" => Counted(tasks[t].pow)
          /\ (Returned(t) /\ tasks[t].res.err = Nil) => Counted(tasks[t].res.pow)
    /\ (ret.op = "DoProofFor" /\ ret.err = Nil)
          => /\ Counted(ret.pow)
             /\ ret.pow.requiredIterations
                  = Cardinality({ k \in 0..(ret.pow.proof - 1) : Rejected(ret.pow.msg, k) })

\* C18 witness: a Proof with two iterations has been returned
C18_Witness ==
    /\ ret.op = "DoProofFor"
    /\ ret.err = Nil
    /\ ret.pow.requiredIterations = 2

\* The step is the delivery of the timer of search t
TimerDelivered(t) == tasks'[t] = [tasks[t] EXCEPT !.fired = TRUE]

\* C19: when ValidatePoWork returns an error for the candidate in hand, the
\* next step of the search (the timer's delivery apart) returns (nil, that
\* error): no increment, no further candidate, no timeout in its place even
\* with the timer delivered; and a search that has returned, with a Proof,
\* the timeout or an error, stays returned with the same outcome.
C19_ErrorsAreTerminal ==
    [][ \A t \in Ids :
          /\ ( /\ Running(t)
               /\ ValidateResult(difficulty, getHash, tasks[t].pow).err # Nil
               /\ tasks'[t] # tasks[t]
               /\ ~TimerDelivered(t) )
                => /\ tasks'[t].pc \in {"send", "close", "done"}
                   /\ tasks'[t].res
                        = Outcome(NilPoWork,
                                  ValidateResult(difficulty, getHash, tasks[t].pow).err)
          /\ Returned(t)
                => /\ tasks'[t].pc \in {"send", "close", "done"}
                   /\ tasks'[t].res = tasks[t].res ]_vars

\* C19 witness: a search met the buffer overrun at nonce 2, after two
\* rejected candidates, and has delivered it; another met the overrun at its
\* first candidate
C19_Witness ==
    \E t, u \in Ids :
        /\ tasks[t].msg = <<6>>
        /\ tasks[t].pc = "done"
        /\ tasks[t].res = Outcome(NilPoWork, ErrBufferOverrun)
        /\ tasks[u].msg = <<0>>
        /\ tasks[u].res = Outcome(NilPoWork, ErrBufferOverrun)

\* C20 as claimed: while the difficulty is one that SetDifficulty rejected
\* (n <= 0), ValidatePoWork never returns true and every DoProofFor ends in
\* the timeout or in the buffer overrun, never in a Proof.
C20_TimeoutOrTooShort ==
    difficulty <= 0
        => /\ ret.op = "ValidatePoWork" => ~ret.ok
           /\ ret.op = "DoProofFor"
                => /\ ret.pow.nil
                   /\ ret.err \in {ErrTimedOut, ErrBufferOverrun}

\* C20 as amended: while the difficulty is one that SetDifficulty rejected
\* (n <= 0), ValidatePoWork never returns true and every DoProofFor ends in a
\* failure, never in a Proof: the timeout, the buffer overrun, or the error of
\* the hash's Write.
C20_NoProofWhileRejected ==
    difficulty <= 0
        => /\ ret.op = "ValidatePoWork" => ~ret.ok
           /\ ret.op = "DoProofFor"
                => /\ ret.pow.nil
                   /\ ret.err \in {ErrTimedOut, ErrBufferOverrun, ErrHashWrite}

\* C20 witness: with difficulty 0 a search of a message whose first digest is
\* all zero has ended in the buffer overrun
C20_Witness ==
    /\ difficulty = 0
    /\ ret.op = "DoProofFor"
    /\ ret.err = ErrBufferOverrun
    /\ \E t \in Sync : tasks[t].pc = "done" /\ tasks[t].msg = <<0>>

====
